---------------------------- MODULE Spec2Model ----------------------------
(***************************************************************************)
(* Model of src/prueba/nft_price_sync_bot.py: the retrying HTTP fetcher    *)
(* (http_request), the two marketplace readers, the pricing function       *)
(* (compute_target_price) and the poll loop (PriceSyncBot.run_forever).    *)
(*                                                                         *)
(* Four specifications share the variables:                                *)
(*   Spec      - run_forever with both readers and http_request inlined    *)
(*   SpecHttp  - http_request alone, for every retry count 1..MaxRetries   *)
(*   SpecPrice - compute_target_price over a grid of inputs                *)
(*   SpecLoot  - LiquidLootClient.get_floor_price over listings payloads   *)
(*   SpecDrip  - DripClient.get_collection_stats with its http_request     *)
(***************************************************************************)
EXTENDS Integers, Sequences, FiniteSets, TLC

VARIABLES
    pc,         \* position of run_forever
    idx,        \* 1-based index of the slug the for loop is at
    fetch,      \* which reader of sync_collection is running: "none", "drip", "ll"
    h,          \* the running (or last) http_request call
    attempted,  \* slugs sync_collection was called for in the current cycle
    raised,     \* indices of the current cycle whose sync_collection raised
    dry_run,    \* cfg.dry_run
    methods,    \* HTTP methods of every request issued so far
    priced,     \* TRUE once compute_target_price was invoked by the loop
    logged,     \* last line written by the current pass of the while loop
    slept,      \* duration of the loop-level time.sleep of the current pass
    intAt,      \* where a KeyboardInterrupt arrived ("none" before)
    exitCode,   \* process exit status (-1 while running)
    price,      \* last call of compute_target_price: inputs and result
    loot,       \* last call of get_floor_price: payload and result
    drip,       \* last call of get_collection_stats: slug, response and result
    elapsed,    \* time.time() - start as measured at line 235 of the current pass
    reqs        \* URLs requested so far by the running (or last) sync_collection

vars == <<pc, idx, fetch, h, attempted, raised, dry_run, methods, priced,
          logged, slept, intAt, exitCode, price, loot, drip, elapsed, reqs>>

loopVars == <<pc, idx, fetch, attempted, raised, dry_run, methods, priced,
              logged, slept, intAt, exitCode>>

(***************************************************************************)
(* Bounds                                                                  *)
(***************************************************************************)
MaxRetries == 3
NumCollections == 2
IntervalSec == 2
MaxElapsed == 3
MaxListings == 2
MaxItems == 4
MaxAmount == 3
MaxDelta == 3

(***************************************************************************)
(* http_request                                                            *)
(***************************************************************************)
DefaultRetries == 3
BackoffNum == 3
BackoffDen == 2

RECURSIVE Pow(_, _)
Pow(b, n) == IF n = 0 THEN 1 ELSE b * Pow(b, n - 1)

\* Outcomes of one requests.request call.
Statuses == {200, 404, 500, 503}
Response(s) == [kind |-> "response", status |-> s]
Failure(k) == [kind |-> k, status |-> 0]
NoResult == Failure("none")
Outcomes ==
    {Response(s) : s \in Statuses}
        \cup {Failure(k) : k \in {"Timeout", "ConnectionError", "OtherError", "KeyboardInterrupt"}}

\* line 104: resp.status_code >= 500
IsServerErrorGT(status) == status > 500
IsServerErrorFrom400(status) == status >= 400
IsServerError(status) == status >= 500

\* line 107: the except clause catches Timeout, ConnectionError and the
\* HTTPError raised at line 105.
CaughtAnyError(o) ==
    \/ o.kind \in {"Timeout", "ConnectionError", "OtherError"}
    \/ o.kind = "response" /\ IsServerError(o.status)
CaughtNoTimeout(o) ==
    \/ o.kind = "ConnectionError"
    \/ o.kind = "response" /\ IsServerError(o.status)
Caught(o) ==
    \/ o.kind \in {"Timeout", "ConnectionError"}
    \/ o.kind = "response" /\ IsServerError(o.status)

\* line 108: attempt == retries
IsLastAttemptEarly(attempt, retries) == attempt >= retries - 1
IsLastAttemptNever(attempt, retries) == attempt > retries
IsLastAttemptLate(attempt, retries) == attempt = retries + 1
IsLastAttempt(attempt, retries) == attempt = retries

\* line 110: sleep_s = backoff ** attempt, as the fraction num/den
BackoffSleepLinear(attempt) == [num |-> BackoffNum * attempt, den |-> BackoffDen]
BackoffSleep(attempt) == [num |-> Pow(BackoffNum, attempt), den |-> Pow(BackoffDen, attempt)]

\* A fresh call http_request(method, ..., retries): about to make attempt 1.
HttpCall(method, retries) ==
    [pc |-> "request", method |-> method, retries |-> retries, attempt |-> 1,
     outs |-> <<>>, sleeps |-> <<>>, result |-> NoResult]

HttpIdle ==
    [pc |-> "idle", method |-> "GET", retries |-> DefaultRetries, attempt |-> 1,
     outs |-> <<>>, sleeps |-> <<>>, result |-> NoResult]

\* One pass of the loop body (lines 102-112) with outcome o of requests.request.
HttpAttempt(hh, o) ==
    LET seen == [hh EXCEPT !.outs = Append(@, o)] IN
    IF o.kind = "response" /\ ~IsServerError(o.status)
    THEN [seen EXCEPT !.pc = "returned", !.result = o]
    ELSE IF Caught(o)
         THEN IF IsLastAttempt(hh.attempt, hh.retries)
              THEN [seen EXCEPT !.pc = "raised", !.result = o]
              ELSE [seen EXCEPT !.pc = "backoff",
                                !.sleeps = Append(@, BackoffSleep(hh.attempt))]
         ELSE [seen EXCEPT !.pc = "raised", !.result = o]

\* time.sleep(sleep_s) at line 112 returns: the for loop of line 101 takes the
\* next attempt, or, with range(1, retries + 1) exhausted, the function falls
\* off its end and returns None.
HttpBackoffDone(hh) ==
    IF hh.attempt < hh.retries
    THEN [hh EXCEPT !.pc = "request", !.attempt = @ + 1]
    ELSE [hh EXCEPT !.pc = "returned", !.result = NoResult]

\* KeyboardInterrupt during time.sleep(sleep_s): not caught inside http_request.
HttpBackoffInterrupted(hh) ==
    [hh EXCEPT !.pc = "raised", !.result = Failure("KeyboardInterrupt")]

(***************************************************************************)
(* Initial state: the bot is constructed, run_forever is about to start.   *)
(***************************************************************************)
NoPrice == [called |-> FALSE]
NoLoot == [called |-> FALSE, listings |-> <<>>]
NoDrip == [pc |-> "idle"]

Init ==
    /\ pc = "start"
    /\ idx = 1
    /\ fetch = "none"
    /\ h = HttpIdle
    /\ attempted = <<>>
    /\ raised = {}
    /\ dry_run \in BOOLEAN
    /\ methods = {}
    /\ priced = FALSE
    /\ logged = "none"
    /\ slept = 0
    /\ intAt = "none"
    /\ exitCode = -1
    /\ price = NoPrice
    /\ loot = NoLoot
    /\ drip = NoDrip
    /\ elapsed = 0
    /\ reqs = <<>>

(***************************************************************************)
(* SpecHttp: http_request on its own, called with any retry count.         *)
(***************************************************************************)
HttpStart ==
    /\ h.pc \in {"idle", "returned", "raised"}
    /\ \E r \in 1..MaxRetries : h' = HttpCall("GET", r)
    /\ UNCHANGED <<loopVars, price, loot, drip, elapsed, reqs>>

HttpRequestStep ==
    /\ h.pc = "request"
    /\ \E o \in Outcomes : h' = HttpAttempt(h, o)
    /\ UNCHANGED <<loopVars, price, loot, drip, elapsed, reqs>>

HttpSleepStep ==
    /\ h.pc = "backoff"
    /\ h' = HttpBackoffDone(h)
    /\ UNCHANGED <<loopVars, price, loot, drip, elapsed, reqs>>

HttpSleepInterrupt ==
    /\ h.pc = "backoff"
    /\ h' = HttpBackoffInterrupted(h)
    /\ UNCHANGED <<loopVars, price, loot, drip, elapsed, reqs>>

NextHttp == HttpStart \/ HttpRequestStep \/ HttpSleepStep \/ HttpSleepInterrupt

SpecHttp == Init /\ [][NextHttp]_vars

(***************************************************************************)
(* LiquidLootClient.get_floor_price                                        *)
(* end_amount is counted in units of 10^17 wei and a price in thousandths  *)
(* of the native unit, so int(end_amount) / 1e18 is amount * 100.          *)
(***************************************************************************)
None == -1
NativeToken == "0x2fe0...4e1b"
OtherToken == "0xother"

Item(token, amount) == [token_address |-> token, end_amount |-> amount]

\* lines 179-180: price = int(item["end_amount"]) / 1e18
WeiToPrice(amount) == amount * 100

\* line 178: item.get("token_address") == <native sentinel>
IsNativeAny(item) == TRUE
IsNative(item) == item.token_address = NativeToken

\* lines 177-181: the prices one listing appends, in item order
RECURSIVE ItemPrices(_)
ItemPrices(items) ==
    IF items = <<>> THEN <<>>
    ELSE (IF IsNative(Head(items)) THEN <<WeiToPrice(Head(items).end_amount)>> ELSE <<>>)
             \o ItemPrices(Tail(items))

\* lines 175-181: prices over all listings
RECURSIVE ListingPrices(_)
ListingPrices(listings) ==
    IF listings = <<>> THEN <<>>
    ELSE ItemPrices(Head(listings)) \o ListingPrices(Tail(listings))

RECURSIVE SeqMax(_)
SeqMax(s) ==
    IF Len(s) = 1 THEN s[1]
    ELSE LET m == SeqMax(Tail(s)) IN IF s[1] > m THEN s[1] ELSE m

\* line 183: min(prices)
RECURSIVE SeqMin(_)
SeqMin(s) ==
    IF Len(s) = 1 THEN s[1]
    ELSE LET m == SeqMin(Tail(s)) IN IF s[1] < m THEN s[1] ELSE m

\* lines 171-183 on a parsed body: the single value the reader returns
GetFloorPrice(listings) ==
    IF listings = <<>> THEN None
    ELSE LET prices == ListingPrices(listings) IN
         IF prices = <<>> THEN None ELSE SeqMin(prices)

(***************************************************************************)
(* Response bodies the loop can receive with a 200 status.                 *)
(***************************************************************************)
Collections == [i \in 1..NumCollections |-> i]

\* Marketplace A: unparsable, or the set of slugs the collection list holds.
\* floorPrice and topBid ("<integer>$bigint") are counted in units of 10^17 wei.
DripBodies ==
    {[ok |-> FALSE, slugs |-> {}, floorPrice |-> 0, topBid |-> 0]}
        \cup {[ok |-> TRUE, slugs |-> S, floorPrice |-> f, topBid |-> 10] :
                 S \in SUBSET (1..NumCollections), f \in {0, 15}}

(***************************************************************************)
(* DripClient.get_collection_stats                                         *)
(***************************************************************************)
\* lines 146-147: int(val.replace("$bigint", "")) / 1e18, in thousandths
parse_bigint(val) == val * 100

\* The exception classes a failed call ends with.
StatusError == "RuntimeError"
NotFoundErrorAsStatus == "RuntimeError"
NotFoundError == "ValueError"

\* lines 105, 109: what http_request raises for outcome o
ErrorOf(o) == IF o.kind = "response" THEN "HTTPError" ELSE o.kind

\* The call is waiting for http_request: no response and no body yet.
DripPending(slug) ==
    [pc |-> "http", slug |-> slug, status |-> 0,
     body |-> [ok |-> FALSE, slugs |-> {}, floorPrice |-> 0, topBid |-> 0],
     error |-> "none", floor |-> None, top_bid |-> None]

\* lines 136-151 on the response o with body `body` that http_request returned
DripResultNoLookup(slug, o, body) ==
    LET call == [slug |-> slug, status |-> o.status, body |-> body,
                 floor |-> None, top_bid |-> None] IN
    IF o.status # 200
    THEN call @@ [pc |-> "raised", error |-> StatusError]
    ELSE IF ~body.ok
    THEN call @@ [pc |-> "raised", error |-> "DataError"]
    ELSE [call EXCEPT !.floor = parse_bigint(body.floorPrice),
                      !.top_bid = parse_bigint(body.topBid)]
             @@ [pc |-> "returned", error |-> "none"]
DripResult(slug, o, body) ==
    LET call == [slug |-> slug, status |-> o.status, body |-> body,
                 floor |-> None, top_bid |-> None] IN
    IF o.status # 200
    THEN call @@ [pc |-> "raised", error |-> StatusError]
    ELSE IF ~body.ok
    THEN call @@ [pc |-> "raised", error |-> "DataError"]
    ELSE IF slug \notin body.slugs
    THEN call @@ [pc |-> "raised", error |-> NotFoundError]
    ELSE [call EXCEPT !.floor = parse_bigint(body.floorPrice),
                      !.top_bid = parse_bigint(body.topBid)]
             @@ [pc |-> "returned", error |-> "none"]

\* Marketplace B: unparsable, or a listings payload; line 171 reads an absent
\* "data" or "listings" key as the empty list, the first payload below.
LoopListings ==
    { <<>>,
      << <<Item(OtherToken, 1)>> >>,
      << <<Item(NativeToken, 0)>> >>,
      << <<Item(NativeToken, 2), Item(OtherToken, 1)>>, <<Item(NativeToken, 1)>> >> }
LLBodies ==
    {[ok |-> FALSE, listings |-> <<>>]}
        \cup {[ok |-> TRUE, listings |-> l] : l \in LoopListings}

RequestOutcomes == {o \in Outcomes : o.kind # "KeyboardInterrupt"}

\* lines 134, 165: the endpoint each reader requests
Url(reader) == IF reader = "drip" THEN "collections" ELSE "listings"

(***************************************************************************)
(* PriceSyncBot.sync_collection                                            *)
(***************************************************************************)
\* lines 221-222: after the two log lines sync_collection returns; it issues
\* no request and never calls compute_target_price.
SyncCollectionTailUpdating(dry) ==
    [requests |-> IF dry THEN {} ELSE {"PUT"}, priced |-> TRUE]
SyncCollectionTail(dry) == [requests |-> {}, priced |-> FALSE]

\* line 219: "floor=..." if loot_floor else "sin datos"
LootLogLineAlwaysFloor(loot_floor) == "floor"
LootLogLine(loot_floor) ==
    IF loot_floor # None /\ loot_floor # 0 THEN "floor" ELSE "sin datos"

\* lines 233-234: the per-collection handler logs and the for loop goes on.
NextIndexAbort(i) == NumCollections + 1
NextIndex(i) == i + 1

CollectionFailed ==
    /\ raised' = raised \cup {idx}
    /\ logged' = "collection error"
    /\ idx' = NextIndex(idx)
    /\ fetch' = "none"
    /\ pc' = "for"

(***************************************************************************)
(* PriceSyncBot.run_forever                                                *)
(***************************************************************************)
\* line 226
RunForever ==
    /\ pc = "start"
    /\ pc' = "top"
    /\ logged' = "start"
    /\ UNCHANGED <<idx, fetch, h, attempted, raised, dry_run, methods, priced,
                   slept, intAt, exitCode, price, loot, drip, elapsed, reqs>>

\* lines 227-230: a new pass of the while loop enters the try block and the
\* for loop; the frames of the previous pass's calls are gone, elapsed is
\* recomputed (line 235) before it is read again, and this pass has logged
\* nothing and slept no time yet
CycleStart ==
    /\ pc = "top"
    /\ pc' = "for"
    /\ idx' = 1
    /\ attempted' = <<>>
    /\ raised' = {}
    /\ h' = HttpIdle
    /\ drip' = NoDrip
    /\ loot' = NoLoot
    /\ reqs' = <<>>
    /\ elapsed' = 0
    /\ logged' = "none"
    /\ slept' = 0
    /\ UNCHANGED <<fetch, dry_run, methods, priced, intAt, exitCode, price>>

\* lines 230-232, 215, 135: the next slug; sync_collection starts with the
\* Marketplace A request
ForNext ==
    /\ pc = "for"
    /\ idx <= NumCollections
    /\ attempted' = Append(attempted, Collections[idx])
    /\ fetch' = "drip"
    /\ h' = HttpCall("GET", DefaultRetries)
    /\ drip' = DripPending(Collections[idx])
    /\ loot' = NoLoot
    /\ reqs' = <<>>
    /\ pc' = "http"
    /\ UNCHANGED <<idx, raised, dry_run, methods, priced, logged, slept, intAt,
                   exitCode, price, elapsed>>

\* line 236: max(0, interval_sec - elapsed)
CycleSleepNoFloor(e) == IntervalSec - e
CycleSleep(e) == IF IntervalSec - e > 0 THEN IntervalSec - e ELSE 0

\* lines 235-237: the for loop is exhausted; time.time() is the wall clock, so
\* the measured time can also be negative (the clock was set back)
ForDone ==
    /\ pc = "for"
    /\ idx > NumCollections
    /\ \E e \in (-1)..MaxElapsed :
           /\ elapsed' = e
           /\ slept' = CycleSleep(e)
    /\ pc' = "sleep_cycle"
    /\ h' = HttpIdle
    /\ drip' = NoDrip
    /\ loot' = NoLoot
    /\ reqs' = <<>>
    /\ UNCHANGED <<idx, fetch, attempted, raised, dry_run, methods, priced,
                   logged, intAt, exitCode, price>>

\* line 237 returns: back to while True
CycleSleepDone ==
    /\ pc = "sleep_cycle"
    /\ pc' = "top"
    /\ UNCHANGED <<idx, fetch, h, attempted, raised, dry_run, methods, priced,
                   logged, slept, intAt, exitCode, price, loot, drip, elapsed, reqs>>

\* lines 103-112: an attempt fails with a caught error before the last attempt
HttpRetry ==
    /\ pc = "http" /\ h.pc = "request"
    /\ \E o \in RequestOutcomes :
           /\ HttpAttempt(h, o).pc = "backoff"
           /\ h' = HttpAttempt(h, o)
    /\ methods' = methods \cup {h.method}
    /\ reqs' = Append(reqs, Url(fetch))
    /\ UNCHANGED <<pc, idx, fetch, attempted, raised, dry_run, priced, logged,
                   slept, intAt, exitCode, price, loot, drip, elapsed>>

\* line 112 returns
HttpBackoff ==
    /\ pc = "http" /\ h.pc = "backoff"
    /\ h' = HttpBackoffDone(h)
    /\ UNCHANGED <<loopVars, price, loot, drip, elapsed, reqs>>

\* lines 109 / 103: http_request raises; lines 233-234 catch it
HttpRaise ==
    /\ pc = "http" /\ h.pc = "request"
    /\ \E o \in RequestOutcomes :
           /\ HttpAttempt(h, o).pc = "raised"
           /\ h' = HttpAttempt(h, o)
           /\ drip' = IF fetch = "drip"
                      THEN [drip EXCEPT !.pc = "raised", !.error = ErrorOf(o)]
                      ELSE drip
    /\ methods' = methods \cup {h.method}
    /\ reqs' = Append(reqs, Url(fetch))
    /\ CollectionFailed
    /\ UNCHANGED <<attempted, dry_run, priced, slept, intAt, exitCode, price, loot, elapsed>>

\* lines 135-151, 216, 166: the Marketplace A response
DripResponse ==
    /\ pc = "http" /\ h.pc = "request" /\ fetch = "drip"
    /\ methods' = methods \cup {h.method}
    /\ reqs' = Append(reqs, Url(fetch))
    /\ \E o \in RequestOutcomes, body \in DripBodies :
           /\ HttpAttempt(h, o).pc = "returned"
           /\ drip' = DripResult(Collections[idx], o, body)
           /\ IF DripResult(Collections[idx], o, body).pc = "returned"
              THEN /\ fetch' = "ll"
                   /\ h' = HttpCall("GET", DefaultRetries)
                   /\ UNCHANGED <<pc, idx, raised, logged>>
              ELSE /\ h' = HttpAttempt(h, o)
                   /\ CollectionFailed
    /\ UNCHANGED <<attempted, dry_run, priced, slept, intAt, exitCode, price, loot, elapsed>>

\* lines 166-183, 218-222: the Marketplace B response
LLResponse ==
    /\ pc = "http" /\ h.pc = "request" /\ fetch = "ll"
    /\ reqs' = Append(reqs, Url(fetch))
    /\ \E o \in RequestOutcomes, body \in LLBodies :
           /\ HttpAttempt(h, o).pc = "returned"
           /\ h' = HttpAttempt(h, o)
           /\ IF o.status = 200 /\ body.ok
              THEN /\ loot' = [called |-> TRUE, listings |-> body.listings,
                                ret |-> [floor |-> GetFloorPrice(body.listings)],
                                at |-> idx]
                   /\ logged' = LootLogLine(GetFloorPrice(body.listings))
                   /\ methods' = methods \cup {h.method}
                                     \cup SyncCollectionTail(dry_run).requests
                   /\ priced' = (priced \/ SyncCollectionTail(dry_run).priced)
                   /\ idx' = idx + 1
                   /\ fetch' = "none"
                   /\ pc' = "for"
                   /\ UNCHANGED raised
              ELSE /\ methods' = methods \cup {h.method}
                   /\ CollectionFailed
                   /\ UNCHANGED <<priced, loot>>
    /\ UNCHANGED <<attempted, dry_run, slept, intAt, exitCode, price, drip, elapsed>>

\* lines 241-244: an Exception raised by a statement of the try block outside
\* the per-collection try (lines 230, 234-237)
LoopErrorFatal ==
    [pc |-> "crashed", logged |-> "loop error", slept |-> 0, exitCode |-> 1]
LoopErrorHandled ==
    [pc |-> "sleep_err", logged |-> "loop error", slept |-> IntervalSec, exitCode |-> -1]

LoopError ==
    /\ pc \in {"for", "sleep_cycle"}
    /\ logged' = LoopErrorHandled.logged
    /\ slept' = LoopErrorHandled.slept
    /\ pc' = LoopErrorHandled.pc
    /\ exitCode' = LoopErrorHandled.exitCode
    /\ UNCHANGED <<idx, fetch, h, attempted, raised, dry_run, methods, priced,
                   intAt, price, loot, drip, elapsed, reqs>>

\* line 244 returns: back to while True
ErrSleepDone ==
    /\ pc = "sleep_err"
    /\ pc' = "top"
    /\ UNCHANGED <<idx, fetch, h, attempted, raised, dry_run, methods, priced,
                   logged, slept, intAt, exitCode, price, loot, drip, elapsed, reqs>>

\* Where run_forever is, in the words of the interrupt handling.
Position ==
    IF pc = "http" THEN (IF h.pc = "backoff" THEN "backoff" ELSE "fetch") ELSE pc

\* lines 238-240: KeyboardInterrupt raised inside the try block (it passes the
\* handlers of lines 107 and 233, which catch Exception subclasses only)
InterruptInTry ==
    /\ pc \in {"for", "http", "sleep_cycle"}
    /\ intAt' = Position
    /\ h' = IF pc # "http" THEN h
            ELSE IF h.pc = "backoff" THEN HttpBackoffInterrupted(h)
            ELSE HttpAttempt(h, Failure("KeyboardInterrupt"))
    /\ methods' = IF pc = "http" /\ h.pc = "request" THEN methods \cup {h.method}
                  ELSE methods
    /\ reqs' = IF pc = "http" /\ h.pc = "request" THEN Append(reqs, Url(fetch))
               ELSE reqs
    /\ logged' = "interrupted"
    /\ pc' = "done"
    /\ exitCode' = 0
    /\ UNCHANGED <<idx, fetch, attempted, raised, dry_run, priced, slept, price, loot, drip, elapsed>>

\* KeyboardInterrupt raised outside the try block (lines 226-228) or inside
\* the handler of line 241 (lines 243-244): no handler is in scope, the
\* interpreter prints the traceback and the process ends with status 130.
InterruptOutsideTry ==
    /\ pc \in {"start", "top", "sleep_err"}
    /\ intAt' = Position
    /\ pc' = "crashed"
    /\ exitCode' = 130
    /\ UNCHANGED <<idx, fetch, h, attempted, raised, dry_run, methods, priced,
                   logged, slept, price, loot, drip, elapsed, reqs>>

Next ==
    \/ RunForever \/ CycleStart \/ ForNext \/ ForDone \/ CycleSleepDone
    \/ HttpRetry \/ HttpBackoff \/ HttpRaise \/ DripResponse \/ LLResponse
    \/ LoopError \/ ErrSleepDone \/ InterruptInTry \/ InterruptOutsideTry

Spec == Init /\ [][Next]_vars

\* The steps run_forever takes by itself: every requests.request call returns
\* or fails (timeout=10 at lines 135 and 166) and every time.sleep returns.
\* The interrupts and the loop error are the environment's and get no
\* fairness.
ProgramStep ==
    \/ RunForever \/ CycleStart \/ ForNext \/ ForDone \/ CycleSleepDone
    \/ HttpRetry \/ HttpBackoff \/ HttpRaise \/ DripResponse \/ LLResponse
    \/ ErrSleepDone

FairSpec == Spec /\ WF_vars(ProgramStep)

(***************************************************************************)
(* compute_target_price                                                    *)
(* floor, top_bid and current_price are counted in ticks of 10^-7 and      *)
(* margin_pct in thousandths; target and result are counted in 10^-10      *)
(* (a thousandth of a tick), so every product below is exact.  Floats are  *)
(* modelled as exact rationals.                                            *)
(***************************************************************************)
Abs(x) == IF x < 0 THEN -x ELSE x

\* line 198: min_guard = top_bid * 1.001
MinGuardAtBid(top_bid) == top_bid * 1000
MinGuard(top_bid) == top_bid * 1001

\* lines 194-200: the target before the deadband
TargetPrice(floor, top_bid, margin, strategy) ==
    IF strategy = "above_top_bid"
    THEN top_bid * (1000 + margin)
    ELSE LET target == floor * (1000 - margin) IN
         IF target < MinGuard(top_bid) THEN MinGuard(top_bid) ELSE target

\* d / base < 0.001 for integers d >= 0 and base > 0, without the product
\* d * 1000 (which passes 2^31 on the grid): d * 1000 <= base - 1.
BelowPermille(d, base) == d <= (base - 1) \div 1000

\* line 202: abs(target - current_price) / max(current_price, 1e-9) < 0.001
\* (1e-9 is 10 units)
InDeadband(target, current_price) ==
    LET cur == current_price * 1000 IN
    BelowPermille(Abs(target - cur), IF cur > 10 THEN cur ELSE 10)

\* line 204: round(target, 6); 10^-6 is 10000 units, ties go to the even
\* multiple
Round6(x) ==
    LET a == Abs(x)
        q == a \div 10000
        r == a % 10000
        n == IF r > 5000 \/ (r = 5000 /\ q % 2 = 1) THEN q + 1 ELSE q
    IN  (IF x < 0 THEN -1 ELSE 1) * n * 10000

\* lines 194-204
compute_target_price(floor, top_bid, current_price, margin, strategy) ==
    LET target == TargetPrice(floor, top_bid, margin, strategy) IN
    IF InDeadband(target, current_price)
    THEN current_price * 1000
    ELSE Round6(target)

(***************************************************************************)
(* SpecPrice: compute_target_price over a grid of inputs: tiny prices and  *)
(* prices around 2 * 10^-3, where both the deadband (0.1% is 20 ticks) and *)
(* the rounding (10^-6 is 10 ticks) decide the result.                     *)
(***************************************************************************)
PriceGrid == (0..MaxDelta) \cup {20000 + d : d \in (-MaxDelta)..MaxDelta}
MarginGrid == {0, 1, 20}
Strategies == {"undercut_floor", "above_top_bid"}

ComputePrice ==
    /\ ~price.called
    /\ \E f \in PriceGrid, b \in PriceGrid, c \in PriceGrid,
          m \in MarginGrid, st \in Strategies :
           price' = [called |-> TRUE, floor |-> f, top_bid |-> b,
                     current_price |-> c, margin |-> m, strategy |-> st,
                     result |-> compute_target_price(f, b, c, m, st)]
    /\ UNCHANGED <<loopVars, h, loot, drip, elapsed, reqs>>

NextPrice == ComputePrice

SpecPrice == Init /\ [][NextPrice]_vars

(***************************************************************************)
(* SpecLoot: get_floor_price over every listings payload of at most        *)
(* MaxListings listings holding at most MaxItems consideration items in    *)
(* all.  The payload is built item by item, then the reader runs once.     *)
(***************************************************************************)
Amounts == {10 * k : k \in 0..MaxAmount}
Items == {Item(NativeToken, a) : a \in Amounts} \cup {Item(OtherToken, 10)}

RECURSIVE TotalItems(_)
TotalItems(listings) ==
    IF listings = <<>> THEN 0 ELSE Len(Head(listings)) + TotalItems(Tail(listings))

\* The response gets one more (still empty) listing.
ListingAdded ==
    /\ ~loot.called
    /\ Len(loot.listings) < MaxListings
    /\ loot' = [loot EXCEPT !.listings = Append(@, <<>>)]
    /\ UNCHANGED <<loopVars, h, price, drip, elapsed, reqs>>

\* The last listing of the response gets one more consideration item.
ItemAdded ==
    /\ ~loot.called
    /\ loot.listings # <<>>
    /\ TotalItems(loot.listings) < MaxItems
    /\ \E it \in Items :
           loot' = [loot EXCEPT !.listings[Len(loot.listings)] = Append(@, it)]
    /\ UNCHANGED <<loopVars, h, price, drip, elapsed, reqs>>

\* lines 164-183 on a 200 response: what the reader hands to its caller
ReadListings ==
    /\ ~loot.called
    /\ loot' = [called |-> TRUE, listings |-> loot.listings,
                ret |-> [floor |-> GetFloorPrice(loot.listings)]]
    /\ UNCHANGED <<loopVars, h, price, drip, elapsed, reqs>>

NextLoot == ListingAdded \/ ItemAdded \/ ReadListings

SpecLoot == Init /\ [][NextLoot]_vars

(***************************************************************************)
(* SpecDrip: get_collection_stats on its own, for every configured slug,   *)
(* with the http_request call it makes (default retries).                  *)
(***************************************************************************)
\* line 135
DripCall ==
    /\ drip.pc \in {"idle", "returned", "raised"}
    /\ \E slug \in 1..NumCollections : drip' = DripPending(slug)
    /\ h' = HttpCall("GET", DefaultRetries)
    /\ UNCHANGED <<loopVars, price, loot, elapsed, reqs>>

\* lines 103-112: a caught failure before the last attempt
DripHttpRetry ==
    /\ drip.pc = "http" /\ h.pc = "request"
    /\ \E o \in Outcomes :
           /\ HttpAttempt(h, o).pc = "backoff"
           /\ h' = HttpAttempt(h, o)
    /\ UNCHANGED <<loopVars, price, loot, drip, elapsed, reqs>>

\* line 112 returns
DripHttpBackoff ==
    /\ drip.pc = "http" /\ h.pc = "backoff"
    /\ h' = HttpBackoffDone(h)
    /\ UNCHANGED <<loopVars, price, loot, drip, elapsed, reqs>>

\* lines 103, 109: http_request raises and get_collection_stats lets it pass
DripHttpRaise ==
    /\ drip.pc = "http" /\ h.pc = "request"
    /\ \E o \in Outcomes :
           /\ HttpAttempt(h, o).pc = "raised"
           /\ h' = HttpAttempt(h, o)
           /\ drip' = [drip EXCEPT !.pc = "raised", !.error = ErrorOf(o)]
    /\ UNCHANGED <<loopVars, price, loot, elapsed, reqs>>

\* lines 136-151: http_request returned a response
DripReturn ==
    /\ drip.pc = "http" /\ h.pc = "request"
    /\ \E o \in Outcomes, body \in DripBodies :
           /\ HttpAttempt(h, o).pc = "returned"
           /\ h' = HttpAttempt(h, o)
           /\ drip' = DripResult(drip.slug, o, body)
    /\ UNCHANGED <<loopVars, price, loot, elapsed, reqs>>

NextDrip == DripCall \/ DripHttpRetry \/ DripHttpBackoff \/ DripHttpRaise \/ DripReturn

SpecDrip == Init /\ [][NextDrip]_vars

(***************************************************************************)
(* Vocabulary of the retry claims, stated without the model's predicates.  *)
(***************************************************************************)
RetryableFailure(o) ==
    \/ o.kind = "response" /\ o.status >= 500
    \/ o.kind \in {"Timeout", "ConnectionError"}

AllRetryable(outs, n) == \A i \in 1..n : RetryableFailure(outs[i])

SleepEq(s, num, den) == s.num * den = num * s.den
SleepLess(s, t) == s.num * t.den < t.num * s.den

\* C1: for every retry count R and every k <= R, when the first k-1 attempts
\* ended in a retryable failure the call has not given up (unless the user
\* interrupted its backoff sleep, attempt k gets made), and when attempt k
\* then received a status below 500 the call has returned exactly that
\* response, without raising, after exactly k requests.
C1_RetryThenSuccess ==
    \A k \in 1..h.retries :
        /\ (/\ Len(h.outs) = k - 1
            /\ AllRetryable(h.outs, k - 1)
            /\ h.pc # "idle"
            /\ h.result.kind # "KeyboardInterrupt")
               => /\ h.pc \in {"request", "backoff"}
                  /\ h.pc = "request" => h.attempt = k
        /\ (/\ Len(h.outs) = k
            /\ AllRetryable(h.outs, k - 1)
            /\ h.outs[k].kind = "response"
            /\ h.outs[k].status < 500)
               => /\ h.pc = "returned"
                  /\ h.result = h.outs[k]

C1_Witness ==
    /\ h.retries = 3
    /\ h.outs = <<Response(500), Response(500), Response(200)>>
    /\ h.pc = "returned"
    /\ h.result = Response(200)

\* C2: when all R attempts ended in a retryable failure the call has raised
\* the failure of attempt R after exactly R requests; failed attempt a < R is
\* followed by one sleep of backoff^a and the last failure by none, so the
\* sleeps are (3/2)^1 .. (3/2)^(R-1), strictly increasing.
C2_ExhaustedRetries ==
    LET n == Len(h.outs) IN
    (h.pc # "idle" /\ n >= 1 /\ AllRetryable(h.outs, n)) =>
        /\ n <= h.retries
        /\ n = h.retries =>
               /\ h.pc = "raised"
               /\ h.result = h.outs[n]
               /\ Len(h.sleeps) = h.retries - 1
        /\ (n < h.retries /\ h.result.kind # "KeyboardInterrupt") =>
               /\ h.pc \in {"backoff", "request"}
               /\ Len(h.sleeps) = n
        /\ \A a \in 1..Len(h.sleeps) :
               /\ a <= h.retries - 1
               /\ SleepEq(h.sleeps[a], Pow(3, a), Pow(2, a))
               /\ a > 1 => SleepLess(h.sleeps[a - 1], h.sleeps[a])

C2_Witness ==
    /\ h.retries = 3
    /\ h.pc = "raised"
    /\ h.outs = <<Response(500), Failure("Timeout"), Response(503)>>
    /\ h.result = Response(503)
    /\ Len(h.sleeps) = 2

\* C3: a response with a 4xx status is returned as an ordinary response on the
\* attempt that received it: the call has returned it, no request follows it
\* and no backoff sleep follows it.
C3_ClientErrorReturned ==
    \A k \in 1..Len(h.outs) :
        (h.outs[k].kind = "response" /\ h.outs[k].status \in 400..499) =>
            /\ h.pc = "returned"
            /\ h.result = h.outs[k]
            /\ Len(h.outs) = k
            /\ h.attempt = k
            /\ Len(h.sleeps) = k - 1

C3_Witness ==
    /\ h.pc = "returned"
    /\ h.result = Response(404)
    /\ h.outs = <<Failure("ConnectionError"), Response(404)>>
    /\ Len(h.sleeps) = 1

(***************************************************************************)
(* Claims about run_forever (specification Spec)                           *)
(***************************************************************************)
\* C4: in every poll cycle sync_collection is attempted once per configured
\* slug, in configured order, whichever earlier collections raised: the slugs
\* attempted so far are always the first ones of the configuration, a raise is
\* logged and moves the loop to the next slug, and when the cycle is at its
\* inter-cycle sleep every configured slug was attempted exactly once.
C4_EveryCollectionAttempted ==
    /\ pc \in {"for", "http", "sleep_cycle"} =>
           /\ Len(attempted) <= NumCollections
           /\ attempted = SubSeq(Collections, 1, Len(attempted))
           /\ raised \subseteq 1..Len(attempted)
    /\ pc = "for" =>
           /\ Len(attempted) = idx - 1
           /\ (idx - 1) \in raised => logged = "collection error"
    /\ pc = "http" => Len(attempted) = idx
    /\ pc = "sleep_cycle" => attempted = Collections

C4_Witness ==
    /\ pc = "sleep_cycle"
    /\ 1 \in raised
    /\ attempted = Collections

\* C5 (as claimed): a KeyboardInterrupt arriving during a fetch, a retry
\* backoff sleep, the inter-cycle sleep or the sleep after a loop-level error
\* is caught at the outer loop: it is logged and the process exits with
\* status 0.
C5_InterruptExitsCleanly ==
    intAt \in {"fetch", "backoff", "sleep_cycle", "sleep_err"} =>
        /\ pc = "done"
        /\ logged = "interrupted"
        /\ exitCode = 0

\* C6: the process ends only through a user interrupt; a loop-level exception
\* is logged and followed by a sleep of the full interval, after which the
\* loop is back at its top and the next cycle starts at the first collection
\* with nothing attempted yet.
C6_Inv ==
    /\ exitCode # -1 => intAt # "none"
    /\ pc \in {"done", "crashed"} => intAt # "none"
    /\ pc = "sleep_err" => (logged = "loop error" /\ slept = IntervalSec)

C6_Step ==
    /\ (pc = "sleep_err" /\ pc' # "sleep_err" /\ intAt' = "none") => pc' = "top"
    /\ (pc = "top" /\ pc' # "top" /\ intAt' = "none") =>
           (pc' = "for" /\ idx' = 1 /\ attempted' = <<>>)

C7_ReadOnlyLoop ==
    /\ methods \subseteq {"GET"}
    /\ ~priced

C7_Witness ==
    /\ dry_run = FALSE
    /\ pc = "sleep_cycle"
    /\ raised = {}
    /\ logged = "floor"
    /\ methods = {"GET"}

(***************************************************************************)
(* Claims about compute_target_price (specification SpecPrice)             *)
(***************************************************************************)
\* C8 (as claimed): with strategy undercut_floor the returned value is at
\* least top_bid x 1.001 minus the rounding epsilon (half of 10^-6), also when
\* the deadband branch returns current_price.
C8_UndercutAboveGuard ==
    (price.called /\ price.strategy = "undercut_floor") =>
        price.result >= price.top_bid * 1001 - 5000

\* The strategy's target without the guard, as the claim C9 defines it.
NaiveTarget(p) ==
    IF p.strategy = "above_top_bid"
    THEN p.top_bid * (1000 + p.margin)
    ELSE p.floor * (1000 - p.margin)

\* The strategy's target with the guard of undercut_floor applied.
GuardedTarget(p) ==
    IF p.strategy = "above_top_bid" \/ NaiveTarget(p) >= p.top_bid * 1001
    THEN NaiveTarget(p)
    ELSE p.top_bid * 1001

\* r is x rounded to 6 decimals: a multiple of 10^-6 at most half of it away.
IsRounded6(r, x) == r % 10000 = 0 /\ Abs(r - x) * 2 <= 10000

\* C9 (as claimed): when |naive_target - current_price| / current_price is
\* below 0.001 the function returns current_price unchanged and unrounded,
\* otherwise the naive target rounded to 6 decimals.
C9_NaiveDeadband ==
    price.called =>
        LET cur == price.current_price * 1000
            naive == NaiveTarget(price)
        IN  IF cur > 0 /\ BelowPermille(Abs(naive - cur), cur)
            THEN price.result = cur
            ELSE IsRounded6(price.result, naive)

\* C9 (amended): the deadband is taken around the target after the guard and
\* relative to max(current_price, 1e-9); inside it current_price is returned
\* unchanged and unrounded, outside it that target rounded to 6 decimals.
C9_GuardedDeadband ==
    price.called =>
        LET cur == price.current_price * 1000
            target == GuardedTarget(price)
            base == IF cur > 10 THEN cur ELSE 10
        IN  IF BelowPermille(Abs(target - cur), base)
            THEN price.result = cur
            ELSE IsRounded6(price.result, target)

C9_Witness ==
    /\ price.called
    /\ price.strategy = "undercut_floor"
    /\ NaiveTarget(price) < price.top_bid * 1001
    /\ ~BelowPermille(Abs(NaiveTarget(price) - price.current_price * 1000),
                      price.current_price * 1000)
    /\ price.current_price % 10 # 0
    /\ price.result = price.current_price * 1000

(***************************************************************************)
(* Claims about get_floor_price (specification SpecLoot)                   *)
(***************************************************************************)
\* The end-amounts of the native-currency consideration items of a payload.
RetainedAmounts(listings) ==
    {listings[i][j].end_amount :
        <<i, j>> \in {<<i, j>> \in (1..Len(listings)) \X (1..MaxItems + 1) :
                         /\ j <= Len(listings[i])
                         /\ listings[i][j].token_address = NativeToken}}

SetMin(S) == CHOOSE x \in S : \A y \in S : x <= y
SetMax(S) == CHOOSE x \in S : \A y \in S : x >= y

\* C10 (as claimed): the reader reports floor = the minimum and top bid = the
\* maximum of the retained native end-amounts divided by 10^18.
C10_FloorAndTopBid ==
    (loot.called /\ RetainedAmounts(loot.listings) # {}) =>
        /\ loot.ret.floor * 10 = SetMin(RetainedAmounts(loot.listings)) * 1000
        /\ "top_bid" \in DOMAIN loot.ret
        /\ loot.ret.top_bid * 10 = SetMax(RetainedAmounts(loot.listings)) * 1000

\* C10 (amended): the reader considers only the native-currency items and
\* reports a single value, floor = the minimum of the retained end-amounts
\* divided by 10^18; it reports no top bid.
C10_FloorOnly ==
    (loot.called /\ RetainedAmounts(loot.listings) # {}) =>
        /\ loot.ret.floor * 10 = SetMin(RetainedAmounts(loot.listings)) * 1000
        /\ DOMAIN loot.ret = {"floor"}

C10_Witness ==
    /\ loot.called
    /\ loot.listings = << <<Item(NativeToken, 10), Item(OtherToken, 10)>>,
                          <<Item(NativeToken, 30), Item(NativeToken, 20)>> >>
    /\ loot.ret.floor = 1000

(***************************************************************************)
(* Claims about the no-data path of Marketplace B (specification Spec)     *)
(***************************************************************************)
\* C11: when the 200 response of Marketplace B has empty or absent listings,
\* or listings without any native-currency consideration item, the reader
\* returns None without raising and sync_collection logs "sin datos" (no
\* data) for that collection without raising: the loop is at the next slug
\* and the collection is not among those that raised.
C11_NoDataLogged ==
    (/\ loot.called
     /\ logged \in {"floor", "sin datos"}
     /\ RetainedAmounts(loot.listings) = {}) =>
        /\ loot.ret.floor = None
        /\ logged = "sin datos"
        /\ (pc = "for" /\ idx = loot.at + 1) => loot.at \notin raised

C11_Witness ==
    /\ loot.called
    /\ loot.listings = << <<Item(OtherToken, 1)>> >>
    /\ loot.ret.floor = None
    /\ logged = "sin datos"
    /\ pc = "for"
    /\ idx = loot.at + 1
    /\ loot.at \notin raised

(***************************************************************************)
(* Claims about get_collection_stats (specification SpecDrip)              *)
(***************************************************************************)
TransportErrors == {"Timeout", "ConnectionError", "HTTPError"}

\* Number of attempts of the call that received a status below 500.
RECURSIVE Answered(_)
Answered(outs) ==
    IF outs = <<>> THEN 0
    ELSE (IF Head(outs).kind = "response" /\ Head(outs).status < 500 THEN 1 ELSE 0)
             + Answered(Tail(outs))

\* C12: on a 200 response whose collection list lacks the slug the call fails
\* with the not-found ValueError, after exactly one answered request that is
\* the last request of the call (no retry follows it); that error is neither
\* one of the transport errors http_request propagates nor the RuntimeError
\* of a non-200 status, and the call ends with it in no other case.
C12_NotFoundIsDistinct ==
    LET finished == drip.pc \in {"returned", "raised"}
        notFound == /\ finished
                    /\ h.pc = "returned"
                    /\ drip.status = 200
                    /\ drip.body.ok
                    /\ drip.slug \notin drip.body.slugs
    IN  /\ notFound =>
               /\ drip.pc = "raised"
               /\ drip.error = "ValueError"
               /\ drip.error \notin TransportErrors \cup {"RuntimeError"}
               /\ Answered(h.outs) = 1
               /\ h.outs[Len(h.outs)] = Response(200)
        /\ (finished /\ drip.error = "ValueError") => notFound
        /\ (finished /\ h.pc = "raised" /\ RetryableFailure(h.result)) =>
               drip.error \in TransportErrors
        /\ (finished /\ h.pc = "returned" /\ drip.status # 200) =>
               drip.error = "RuntimeError"

C12_Witness ==
    /\ drip.pc = "raised"
    /\ drip.error = "ValueError"
    /\ drip.slug = 1
    /\ drip.body.ok
    /\ drip.body.slugs = {2}
    /\ h.outs = <<Response(500), Response(200)>>

(***************************************************************************)
(* Claims about the timing of the loop (specification Spec)                *)
(***************************************************************************)
\* C13: after a completed cycle the loop sleeps exactly
\* max(0, interval_sec - elapsed): never a negative time, and no time at all
\* when the cycle took interval_sec or longer.
C13_CycleSleepFloored ==
    pc = "sleep_cycle" =>
        /\ slept >= 0
        /\ slept >= IntervalSec - elapsed
        /\ slept = 0 \/ slept = IntervalSec - elapsed
        /\ elapsed >= IntervalSec => slept = 0

C13_Witness ==
    /\ pc = "sleep_cycle"
    /\ elapsed > IntervalSec
    /\ slept = 0
    /\ attempted = Collections

(***************************************************************************)
(* Claims about the bid guard (specification SpecPrice)                    *)
(***************************************************************************)
\* C14 (as claimed): with strategy undercut_floor the returned price is
\* strictly greater than top_bid for all floor >= 0, top_bid >= 0, margin and
\* current_price, whichever branch produced it.
C14_AboveBestBid ==
    (price.called /\ price.strategy = "undercut_floor") =>
        price.result > price.top_bid * 1000

(***************************************************************************)
(* Claims about fatal errors of http_request (specification SpecHttp)      *)
(***************************************************************************)
\* C15: only 5xx responses, timeouts and connection errors are retried: every
\* attempt that was followed by another attempt or by a backoff sleep ended in
\* one of them, and any other exception of the transport ends the call on the
\* attempt that raised it, with that exception, no further request and no
\* backoff sleep.
C15_OtherErrorsFatal ==
    /\ \A k \in 1..Len(h.outs) :
           (k < Len(h.outs) \/ h.pc \in {"backoff", "request"}) =>
               RetryableFailure(h.outs[k])
    /\ \A k \in 1..Len(h.outs) :
           h.outs[k].kind \in {"OtherError", "KeyboardInterrupt"} =>
               /\ h.pc = "raised"
               /\ h.result = h.outs[k]
               /\ Len(h.outs) = k
               /\ h.attempt = k
               /\ Len(h.sleeps) = k - 1

C15_Witness ==
    /\ h.retries = 3
    /\ h.outs = <<Response(503), Failure("OtherError")>>
    /\ h.pc = "raised"
    /\ h.result = Failure("OtherError")
    /\ Len(h.sleeps) = 1

(***************************************************************************)
(* Claims about the order of the two fetches (specification Spec)          *)
(***************************************************************************)
\* The Marketplace A fetch of the running (or last) sync_collection ended
\* without a usable answer: http_request raised, or the status was not 200,
\* or the body was unusable, or the slug was not in the collection list.
AFetchFailed ==
    /\ drip.pc \in {"returned", "raised"}
    /\ \/ drip.status # 200
       \/ ~drip.body.ok
       \/ drip.slug \notin drip.body.slugs

IsComparison(line) == line \in {"floor", "sin datos"}

\* C16: within sync_collection every Marketplace A request precedes every
\* Marketplace B request and B is only requested once A has returned its
\* stats; when the A fetch failed, no B request was issued for that
\* collection and the last line logged is an error (or the interrupt) line,
\* never a comparison.
C16_AThenB ==
    /\ \A i \in 1..Len(reqs) : \A j \in 1..Len(reqs) :
           (reqs[i] = "listings" /\ reqs[j] = "collections") => j < i
    /\ (fetch = "ll" \/ \E i \in 1..Len(reqs) : reqs[i] = "listings") =>
           (drip.pc = "returned" /\ ~AFetchFailed)
    /\ AFetchFailed =>
           /\ \A i \in 1..Len(reqs) : reqs[i] = "collections"
           /\ fetch = "none"
           /\ ~IsComparison(logged)
           /\ logged \in {"collection error", "loop error", "interrupted"}

C16_Witness ==
    /\ pc = "for"
    /\ drip.pc = "raised"
    /\ drip.error = "ValueError"
    /\ reqs = <<"collections", "collections">>
    /\ logged = "collection error"
    /\ (idx - 1) \in raised

(***************************************************************************)
(* Claims about what http_request hands back (specification SpecHttp)      *)
(***************************************************************************)
\* C17: for every retry count of 1 or more, a call of http_request that has
\* returned hands back a response whose status is below 500, never a 5xx
\* response and never None; a call that has ended otherwise has raised, and
\* no call makes more attempts than its retry count.
C17_ReturnsOnlyUsableResponse ==
    /\ h.retries >= 1
    /\ h.pc = "returned" =>
           /\ h.result # NoResult
           /\ h.result.kind = "response"
           /\ h.result.status < 500
           /\ h.result = h.outs[Len(h.outs)]
    /\ h.pc = "raised" => h.result.kind \notin {"response", "none"}
                              \/ h.result.status >= 500
    /\ h.attempt <= h.retries
    /\ Len(h.outs) <= h.retries

C17_Witness ==
    /\ h.pc = "returned"
    /\ h.retries >= 2
    /\ Len(h.outs) = h.retries
    /\ h.outs[1] = Response(503)
    /\ h.result = Response(404)

(***************************************************************************)
(* Claims about the end of a cycle (specification FairSpec)                *)
(***************************************************************************)
InCycle == pc \in {"for", "http"}

\* The cycle was left through the handlers of lines 238-244: Ctrl+C ended
\* the bot, or the loop error handler took over and sleeps before the next
\* cycle.
CycleDiverted == pc \in {"done", "sleep_err"}

\* What one cycle may spend: one sync_collection per configured collection,
\* at most 2 x retries requests for a collection, and per fetch at most
\* retries attempts and retries - 1 backoff sleeps.
CycleBudget ==
    /\ Len(attempted) <= NumCollections
    /\ Len(reqs) <= 2 * DefaultRetries
    /\ Len(h.outs) <= DefaultRetries
    /\ Len(h.sleeps) <= DefaultRetries - 1
    /\ fetch = "drip" => Len(reqs) <= DefaultRetries

\* C18: every poll cycle terminates.  While every HTTP attempt returns or
\* fails and every backoff sleep ends, a cycle stays within its budget (at
\* most 2 x retries requests per collection, retries = 3 and at most 2
\* backoff sleeps per fetch) and a cycle that is under way reaches the
\* inter-cycle sleep of line 237, unless Ctrl+C or the loop error handler
\* ends it first.
C18_CycleTerminates ==
    /\ []CycleBudget
    /\ InCycle ~> (pc = "sleep_cycle" \/ CycleDiverted)

\* the last collection of a cycle used up its whole budget and the for loop
\* is about to end
C18_Witness ==
    /\ pc = "for"
    /\ idx = NumCollections + 1
    /\ Len(reqs) = 2 * DefaultRetries
    /\ Len(h.sleeps) = DefaultRetries - 1
    /\ IsComparison(logged)

=============================================================================
